---------------------------- MODULE Spec2Model ----------------------------
(***************************************************************************)
(* Subsystem metrics of awx/main/analytics/subsystem_metrics.py: the typed *)
(* metric values (BaseM, IntM, FloatM, SetIntM, HistogramM), the Metrics   *)
(* namespace object held by each process, its flush (pipe_execute) into    *)
(* the redis hash, the lock-guarded broadcast (send_metrics) and           *)
(* reset_values.  Every process owns one Metrics object; redis is the only *)
(* state the processes share.  Floats are modelled as integers (clock      *)
(* ticks).                                                                 *)
(***************************************************************************)
EXTENDS Integers, Sequences, FiniteSets, TLC

(***************************************************************************)
(* Bounds of the model.                                                    *)
(***************************************************************************)
MaxTime == 4        \* the clock stops advancing here
MaxVal == 2         \* largest absolute value of a pending or total counter
MaxCalls == 3       \* flushes that run, over all processes
MaxObs == 3         \* histogram observations between two resets

(***************************************************************************)
(* Program constants.  The two intervals come from the settings            *)
(* (SUBSYSTEM_METRICS_INTERVAL_SAVE_TO_REDIS / _SEND_METRICS), in ticks.   *)
(* StartTime is the value of time.time() when the processes are            *)
(* constructed: the epoch clock is far beyond either interval.             *)
(***************************************************************************)
pipe_execute_interval == 1
send_metrics_interval == 1
StartTime == 2

Procs == {"p1", "p2"}
Nodes == {"awx-1", "awx-2"}
Namespaces == {"callback_receiver", "dispatcher"}

\* redis nil / Python None; a present value v is <<v>>
Nil == <<>>

(***************************************************************************)
(* The registries.  METRICSLIST is CallbackReceiverMetrics.METRICSLIST     *)
(* (one metric of each kind) chained with Metrics._METRICSLIST, in that    *)
(* order; the registry of the dispatcher is one metric of                  *)
(* DispatcherMetrics.METRICSLIST chained with the same _METRICSLIST.       *)
(***************************************************************************)
Gauge == "callback_receiver_events_queue_size_redis"
Counter == "callback_receiver_events_popped_redis"
Histo == "callback_receiver_batch_events_insert_db"
PipeSecs == "subsystem_metrics_pipe_execute_seconds"
PipeCalls == "subsystem_metrics_pipe_execute_calls"
SendSecs == "subsystem_metrics_send_metrics_seconds"
SendTime == "send_metrics_time"
Scheduled == "task_manager__schedule_calls"

METRICSLIST == <<Gauge, Counter, Histo, PipeSecs, PipeCalls, SendSecs>>

\* the fields of self.METRICS, in the order of the dict
Registry(namespace) ==
    IF namespace = "dispatcher"
    THEN <<Scheduled, PipeSecs, PipeCalls, SendSecs>>
    ELSE METRICSLIST

Kind(field) ==
    CASE field = Gauge -> "SetIntM"
      [] field = Counter -> "IntM"
      [] field = Histo -> "HistogramM"
      [] field = PipeSecs -> "FloatM"
      [] field = PipeCalls -> "IntM"
      [] field = SendSecs -> "FloatM"
      [] field = Scheduled -> "IntM"

\* settings.SUBSYSTEM_METRICS_BATCH_INSERT_BUCKETS, ascending
buckets == <<10, 20, 50>>

\* HistogramM.__init__ of the registry's histogram: the hash fields of its
\* sub-metrics, by bucket index
buckets_to_keys ==
    [i \in 1..Len(buckets) |-> Histo \o "_" \o ToString(buckets[i])]
inf_key == Histo \o "_inf"
sum_key == Histo \o "_sum"

BucketKey(field, b) ==
    buckets_to_keys[CHOOSE i \in 1..Len(buckets) : buckets[i] = b]
InfKey(field) == inf_key
SumKey(field) == sum_key

HistKeys(field) ==
    {BucketKey(field, buckets[i]) : i \in 1..Len(buckets)}
        \cup {InfKey(field), SumKey(field)}

Fields == {METRICSLIST[i] : i \in 1..Len(METRICSLIST)}

\* every hash field a Metrics object owns a BaseM for
Keys == Fields \cup HistKeys(Histo)

FieldsOf(namespace) ==
    {Registry(namespace)[i] : i \in 1..Len(Registry(namespace))}

KeysOf(namespace) ==
    FieldsOf(namespace)
        \cup UNION {HistKeys(field) : field \in
                       {f \in FieldsOf(namespace) : Kind(f) = "HistogramM"}}

\* every field of the redis hash root_key
HashKeys == UNION {KeysOf(ns) : ns \in Namespaces} \cup {SendTime}

(***************************************************************************)
(* redis primitives on the hash root_key.                                  *)
(***************************************************************************)
decode_value(value) == IF value # Nil THEN value[1] ELSE 0

hget(conn, key) == conn[key]

hset(conn, key, value) == [conn EXCEPT ![key] = <<value>>]

hincrby(conn, key, amount) ==
    [conn EXCEPT ![key] = <<decode_value(conn[key]) + amount>>]

\* one queued command of the pipeline
ApplyCommand(conn, cmd) ==
    CASE cmd[1] = "hincrby" -> hincrby(conn, cmd[2], cmd[3])
      [] cmd[1] = "hincrbyfloat" -> hincrby(conn, cmd[2], cmd[3])
      [] cmd[1] = "hset" -> hset(conn, cmd[2], cmd[3])

\* pipe.execute(): the queued commands run as one MULTI/EXEC transaction
RECURSIVE execute(_, _)
execute(conn, pipe) ==
    IF pipe = <<>> THEN conn
    ELSE execute(ApplyCommand(conn, Head(pipe)), Tail(pipe))

(***************************************************************************)
(* Metric values.  A BaseM is [current_value, metric_has_changed]; the     *)
(* BaseMs of one Metrics object are a function over Keys.                  *)
(***************************************************************************)
BaseM == [current_value |-> 0, metric_has_changed |-> FALSE]

BaseM_inc_replaces(mv, value) ==
    [current_value |-> value, metric_has_changed |-> TRUE]

BaseM_inc(mv, value) ==
    [current_value |-> mv.current_value + value, metric_has_changed |-> TRUE]

BaseM_set(mv, value) ==
    [current_value |-> value, metric_has_changed |-> TRUE]

BaseM_get(mv) == mv.current_value

BaseM_decode(conn, key) == decode_value(hget(conn, key))

\* st is [acc, conn]: the BaseMs and the hash they are reset in
BaseM_reset_value(st, key) ==
    [acc |-> [st.acc EXCEPT ![key].current_value = 0],
     conn |-> hset(st.conn, key, 0)]

\* st is [acc, pipe]: the BaseMs and the pipeline that queues their merge
IntM_store_value_overwrite(st, key) ==
    IF st.acc[key].metric_has_changed
    THEN [acc |-> [st.acc EXCEPT ![key] = BaseM],
          pipe |-> Append(st.pipe, <<"hset", key, st.acc[key].current_value>>)]
    ELSE st

IntM_store_value(st, key) ==
    IF st.acc[key].metric_has_changed
    THEN [acc |-> [st.acc EXCEPT ![key] = BaseM],
          pipe |-> Append(st.pipe, <<"hincrby", key, st.acc[key].current_value>>)]
    ELSE st

FloatM_store_value(st, key) ==
    IF st.acc[key].metric_has_changed
    THEN [acc |-> [st.acc EXCEPT ![key] = BaseM],
          pipe |-> Append(st.pipe,
                          <<"hincrbyfloat", key, st.acc[key].current_value>>)]
    ELSE st

\* a store_value that would write the gauge on every flush
SetIntM_store_value_always(st, key) ==
    [acc |-> [st.acc EXCEPT ![key].metric_has_changed = FALSE],
     pipe |-> Append(st.pipe, <<"hset", key, st.acc[key].current_value>>)]

SetIntM_store_value(st, key) ==
    IF st.acc[key].metric_has_changed
    THEN [acc |-> [st.acc EXCEPT ![key].metric_has_changed = FALSE],
          pipe |-> Append(st.pipe, <<"hset", key, st.acc[key].current_value>>)]
    ELSE st

(***************************************************************************)
(* HistogramM.                                                             *)
(***************************************************************************)
RECURSIVE ResetBuckets(_, _, _)
ResetBuckets(st, field, i) ==
    IF i > Len(buckets) THEN st
    ELSE ResetBuckets(BaseM_reset_value(st, BucketKey(field, buckets[i])),
                      field, i + 1)

HistogramM_reset_value_without_sum(st, field) ==
    LET s0 == [st EXCEPT !.conn = hset(st.conn, field, 0)]
        s1 == BaseM_reset_value(s0, InfKey(field))
        s3 == ResetBuckets(s1, field, 1)
    IN  BaseM_reset_value(s3, field)

HistogramM_reset_value(st, field) ==
    LET s0 == [st EXCEPT !.conn = hset(st.conn, field, 0)]
        s1 == BaseM_reset_value(s0, InfKey(field))
        s2 == BaseM_reset_value(s1, SumKey(field))
        s3 == ResetBuckets(s2, field, 1)
    IN  BaseM_reset_value(s3, field)

RECURSIVE FirstBucket_strict(_, _)
FirstBucket_strict(value, i) ==
    IF i > Len(buckets) THEN 0
    ELSE IF value < buckets[i] THEN i
    ELSE FirstBucket_strict(value, i + 1)

\* the index of the first bucket b with value <= b, 0 when there is none
RECURSIVE FirstBucket(_, _)
FirstBucket(value, i) ==
    IF i > Len(buckets) THEN 0
    ELSE IF value <= buckets[i] THEN i
    ELSE FirstBucket(value, i + 1)

HistogramM_observe(acc, field, value) ==
    LET i == FirstBucket(value, 1)
        a1 == IF i = 0 THEN acc
              ELSE [acc EXCEPT ![BucketKey(field, buckets[i])] =
                                   BaseM_inc(@, 1)]
        a2 == [a1 EXCEPT ![SumKey(field)] = BaseM_inc(@, value)]
    IN  [a2 EXCEPT ![InfKey(field)] = BaseM_inc(@, 1)]

HistogramM_decode(conn, field) ==
    [counts |-> [i \in 1..Len(buckets) |->
                    BaseM_decode(conn, BucketKey(field, buckets[i]))],
     sum |-> BaseM_decode(conn, SumKey(field)),
     inf |-> BaseM_decode(conn, InfKey(field))]

RECURSIVE StoreBuckets(_, _, _)
StoreBuckets(st, field, i) ==
    IF i > Len(buckets) THEN st
    ELSE StoreBuckets(IntM_store_value(st, BucketKey(field, buckets[i])),
                      field, i + 1)

HistogramM_store_value(st, field) ==
    LET s1 == StoreBuckets(st, field, 1)
        s2 == IntM_store_value(s1, SumKey(field))
    IN  IntM_store_value(s2, InfKey(field))

(***************************************************************************)
(* Dispatch on the kind of a registry metric.                              *)
(***************************************************************************)
reset_value(st, field) ==
    IF Kind(field) = "HistogramM" THEN HistogramM_reset_value(st, field)
    ELSE BaseM_reset_value(st, field)

store_value(st, field) ==
    CASE Kind(field) = "IntM" -> IntM_store_value(st, field)
      [] Kind(field) = "FloatM" -> FloatM_store_value(st, field)
      [] Kind(field) = "SetIntM" -> SetIntM_store_value(st, field)
      [] Kind(field) = "HistogramM" -> HistogramM_store_value(st, field)

decode(conn, field) ==
    IF Kind(field) = "HistogramM" THEN HistogramM_decode(conn, field)
    ELSE BaseM_decode(conn, field)

(***************************************************************************)
(* redis keys outside the hash.                                            *)
(***************************************************************************)
root_key == "awx_metrics"

LockName(namespace) == root_key \o "-" \o namespace \o "_lock"

LockNames == {LockName(ns) : ns \in Namespaces} \cup {root_key \o "_lock"}

\* the keys root_key-<namespace>_instance_<node>, as <<namespace, node>>
InstanceKeys == Namespaces \X Nodes

json_dumps(data) == <<"json", data>>

json_loads(text) == text[2]

(***************************************************************************)
(* State.                                                                  *)
(***************************************************************************)
VARIABLES
    now,            \* time.time() and time.perf_counter()
    hash,           \* redis: the hash root_key, field -> Nil or <<value>>
    locks,          \* redis: lock key -> Nil or <<owner>>
    instance_keys,  \* redis: per-node snapshot key -> Nil or <<json text>>
    channel,        \* the payload last given to emit_channel_notification
    m,              \* the Metrics object of each process
    pc,             \* where each process is inside pipe_execute/send_metrics
    frame,          \* the locals of the running pipe_execute/send_metrics
    reader,         \* the locals of the running load_other_metrics
    response,       \* what the last generate_metrics or collect gave back
    total,          \* history: sum of every inc() made on Counter
    observed,       \* history: observations of Histo since the last reset
    since,          \* history: per process, what happened last to its values
    reset_seen,     \* history: reset_values has run
    publishes,      \* history: who published, and the time it had read
    last            \* history: the operation that made the last step

vars == <<now, hash, locks, instance_keys, channel, m, pc, frame, reader,
          response, total, observed, since, reset_seen, publishes, last>>

redis == <<hash, locks, instance_keys>>

history == <<total, observed, since, reset_seen, publishes>>

(***************************************************************************)
(* The Metrics object.                                                     *)
(***************************************************************************)
Metrics(namespace, auto_pipe_execute, instance_name, metrics_have_changed) ==
    [namespace |-> namespace,
     last_pipe_execute |-> StartTime,
     metrics_have_changed |-> metrics_have_changed,
     auto_pipe_execute |-> auto_pipe_execute,
     instance_name |-> instance_name,
     METRICS |-> [k \in KeysOf(namespace) |-> BaseM],
     previous_send_metrics |-> BaseM]

\* an inc that would mark the namespace dirty whatever the value
Metrics_inc_always_dirty(self, field, value) ==
    [self EXCEPT !.METRICS[field] =
                     IF value # 0 THEN BaseM_inc(@, value) ELSE @,
                 !.metrics_have_changed = TRUE]

Metrics_inc(self, field, value) ==
    IF value # 0
    THEN [self EXCEPT !.METRICS[field] = BaseM_inc(@, value),
                      !.metrics_have_changed = TRUE]
    ELSE self

Metrics_set(self, field, value) ==
    [self EXCEPT !.METRICS[field] = BaseM_set(@, value),
                 !.metrics_have_changed = TRUE]

Metrics_observe(self, field, value) ==
    [self EXCEPT !.METRICS = HistogramM_observe(@, field, value),
                 !.metrics_have_changed = TRUE]

Metrics_get(self, field) == BaseM_get(self.METRICS[field])

load_local_metrics(self, conn) ==
    [field \in FieldsOf(self.namespace) |-> decode(conn, field)]

serialize_local_metrics(self, conn) ==
    json_dumps(load_local_metrics(self, conn))

should_pipe_execute_at_interval(self, t) ==
    IF self.metrics_have_changed = FALSE THEN FALSE
    ELSE IF t - self.last_pipe_execute >= pipe_execute_interval THEN TRUE
    ELSE FALSE

should_pipe_execute(self, t) ==
    IF self.metrics_have_changed = FALSE THEN FALSE
    ELSE IF t - self.last_pipe_execute > pipe_execute_interval THEN TRUE
    ELSE FALSE

\* store_value of the metrics of `fields`, in order
RECURSIVE StoreAll(_, _)
StoreAll(st, fields) ==
    IF fields = <<>> THEN st
    ELSE StoreAll(store_value(st, Head(fields)), Tail(fields))

MergeBatch_stays_changed(self, conn, t, duration) ==
    LET st == StoreAll([acc |-> self.METRICS, pipe |-> <<>>],
                       Registry(self.namespace))
        acc == [st.acc EXCEPT ![PipeSecs] = BaseM_inc(@, duration),
                              ![PipeCalls] = BaseM_inc(@, 1)]
    IN  [self |-> [self EXCEPT !.METRICS = acc,
                               !.last_pipe_execute = t],
         conn |-> execute(conn, st.pipe)]

\* pipe_execute up to the call of send_metrics, when metrics_have_changed:
\* [self, conn] after the batch; duration is perf_counter's difference
MergeBatch(self, conn, t, duration) ==
    LET st == StoreAll([acc |-> self.METRICS, pipe |-> <<>>],
                       Registry(self.namespace))
        acc == [st.acc EXCEPT ![PipeSecs] = BaseM_inc(@, duration),
                              ![PipeCalls] = BaseM_inc(@, 1)]
    IN  [self |-> [self EXCEPT !.METRICS = acc,
                               !.last_pipe_execute = t,
                               !.metrics_have_changed = FALSE],
         conn |-> execute(conn, st.pipe)]

\* pipe_execute without its broadcast: [self, conn] after it
Metrics_pipe_execute(self, conn, t, duration) ==
    IF self.metrics_have_changed = TRUE THEN MergeBatch(self, conn, t, duration)
    ELSE [self |-> self, conn |-> conn]

\* reset_value of the metrics of `fields`, in order
RECURSIVE ResetAll(_, _)
ResetAll(st, fields) ==
    IF fields = <<>> THEN st
    ELSE ResetAll(reset_value(st, Head(fields)), Tail(fields))

\* every node name a key or a request can carry, in lexicographic order;
\* the last one is the name of no node
NodeNames == <<"awx-1", "awx-2", "awx-9">>

\* list.sort() of a set of node names
sorted(names) == SelectSeq(NodeNames, LAMBDA i : i \in names)

\* the node names load_other_metrics enumerates: its own, then those of the
\* keys scan_iter finds, sorted
instance_names(self, keys) ==
    LET scanned == {k[2] : k \in {x \in InstanceKeys :
                        x[1] = self.namespace /\ keys[x] # Nil}}
    IN  sorted({self.instance_name} \cup scanned)

ReadInstance_without_filter(self, keys, instances_filter, instance_data, instance) ==
    LET instance_data_from_redis ==
            IF <<self.namespace, instance>> \in DOMAIN keys
            THEN keys[<<self.namespace, instance>>] ELSE Nil
    IN  IF instance_data_from_redis # Nil
        THEN Append(instance_data,
                    [instance |-> instance,
                     data |-> json_loads(instance_data_from_redis[1])])
        ELSE instance_data

ReadInstance_keeps_missing(self, keys, instances_filter, instance_data, instance) ==
    IF instances_filter = {} \/ instance \in instances_filter
    THEN Append(instance_data, [instance |-> instance, data |-> Nil])
    ELSE instance_data

\* one round of the loop that loads the data: conn.get of the key of
\* `instance`, appended to instance_data when it holds a value
ReadInstance(self, keys, instances_filter, instance_data, instance) ==
    IF instances_filter = {} \/ instance \in instances_filter
    THEN LET instance_data_from_redis ==
                 IF <<self.namespace, instance>> \in DOMAIN keys
                 THEN keys[<<self.namespace, instance>>] ELSE Nil
         IN  IF instance_data_from_redis # Nil
             THEN Append(instance_data,
                         [instance |-> instance,
                          data |-> json_loads(instance_data_from_redis[1])])
             ELSE instance_data
    ELSE instance_data

RECURSIVE LoadAll(_, _, _, _, _)
LoadAll(self, keys, instances_filter, instance_data, names) ==
    IF names = <<>> THEN instance_data
    ELSE LoadAll(self, keys, instances_filter,
                 ReadInstance(self, keys, instances_filter, instance_data,
                              Head(names)),
                 Tail(names))

\* load_other_metrics against one state of redis: the sequence of
\* [instance, data] in the order of the returned dict
load_other_metrics(self, keys, instances_filter) ==
    LoadAll(self, keys, instances_filter, <<>>, instance_names(self, keys))

\* the entry of node `instance` in an aggregation, Nil when it has none
EntryOf(instance_data, instance) ==
    IF \E i \in 1..Len(instance_data) : instance_data[i].instance = instance
    THEN <<(CHOOSE i \in 1..Len(instance_data) :
               instance_data[i].instance = instance)>>
    ELSE Nil

(***************************************************************************)
(* Prometheus text.  output_text is a sequence of lines; a line is         *)
(* <<field, "# HELP">>, <<field, "# TYPE", type>> or the sample            *)
(* <<field, name, labels, value>>.  A rendering is [output_text, raised],  *)
(* raised when the code raises KeyError.                                   *)
(***************************************************************************)
Header(field, type) == <<<<field, "# HELP">>, <<field, "# TYPE", type>>>>

RECURSIVE BaseM_samples(_, _)
BaseM_samples(field, instance_data) ==
    IF instance_data = <<>> THEN <<>>
    ELSE LET e == Head(instance_data)
         IN  (IF field \in DOMAIN e.data
              THEN <<<<field, field, <<"node", e.instance>>, e.data[field]>>>>
              ELSE <<>>)
                 \o BaseM_samples(field, Tail(instance_data))

BaseM_to_prometheus(field, instance_data) ==
    [output_text |-> Header(field, "gauge") \o BaseM_samples(field, instance_data),
     raised |-> FALSE]

sum_single(counts, i) == counts[i]

\* sum(counts[0:i+1]) for the bucket of index i, counted from 1 here
RECURSIVE sum(_, _)
sum(counts, i) ==
    IF i = 0 THEN 0
    ELSE (IF i <= Len(counts) THEN counts[i] ELSE 0) + sum(counts, i - 1)

\* the lines of one node
HistogramM_node(field, instance, entry) ==
    [i \in 1..Len(buckets) |->
        <<field, field \o "_bucket",
          <<"le", ToString(buckets[i]), "node", instance>>,
          sum(entry.counts, i)>>]
    \o <<<<field, field \o "_bucket", <<"le", "+Inf", "node", instance>>,
           entry.inf>>,
         <<field, field \o "_count", <<"node", instance>>, entry.inf>>,
         <<field, field \o "_sum", <<"node", instance>>, entry.sum>>>>

\* the loop over the nodes: instance_data[instance][self.field] raises
\* KeyError for a node without the field
RECURSIVE HistogramM_samples(_, _)
HistogramM_samples(field, instance_data) ==
    IF instance_data = <<>> THEN [output_text |-> <<>>, raised |-> FALSE]
    ELSE LET e == Head(instance_data)
             rest == HistogramM_samples(field, Tail(instance_data))
         IN  IF field \notin DOMAIN e.data \/ rest.raised
             THEN [output_text |-> <<>>, raised |-> TRUE]
             ELSE [output_text |->
                       HistogramM_node(field, e.instance, e.data[field])
                           \o rest.output_text,
                   raised |-> FALSE]

HistogramM_to_prometheus(field, instance_data) ==
    LET r == HistogramM_samples(field, instance_data)
    IN  IF r.raised THEN r
        ELSE [output_text |-> Header(field, "histogram") \o r.output_text,
              raised |-> FALSE]

to_prometheus(field, instance_data) ==
    IF Kind(field) = "HistogramM"
    THEN HistogramM_to_prometheus(field, instance_data)
    ELSE BaseM_to_prometheus(field, instance_data)

\* the loop of generate_metrics over self.METRICS
RECURSIVE RenderAll(_, _, _)
RenderAll(fields, metrics_filter, instance_data) ==
    IF fields = <<>> THEN [output_text |-> <<>>, raised |-> FALSE]
    ELSE LET field == Head(fields)
             rest == RenderAll(Tail(fields), metrics_filter, instance_data)
         IN  IF metrics_filter = {} \/ field \in metrics_filter
             THEN LET r == to_prometheus(field, instance_data)
                  IN  IF r.raised \/ rest.raised
                      THEN [output_text |-> <<>>, raised |-> TRUE]
                      ELSE [output_text |-> r.output_text \o rest.output_text,
                            raised |-> FALSE]
             ELSE rest

generate_metrics(self, keys, instances_filter, metrics_filter) ==
    LET instance_data == load_other_metrics(self, keys, instances_filter)
    IN  IF instance_data # <<>>
        THEN RenderAll(Registry(self.namespace), metrics_filter, instance_data)
        ELSE [output_text |-> <<>>, raised |-> FALSE]

(***************************************************************************)
(* CustomToPrometheusMetricsCollector.collect.  A yielded family is        *)
(* [field, type, value]; the value of a histogram is [buckets, sum_value]. *)
(***************************************************************************)
\* Python's truth value of an entry: None (absent) and 0 are false, the
\* dict of a histogram is true
Falsy(host_metrics, field) ==
    \/ field \notin DOMAIN host_metrics
    \/ Kind(field) # "HistogramM" /\ host_metrics[field] = 0

MetricFamily(field, entry) ==
    IF Kind(field) = "HistogramM"
    THEN [field |-> field, type |-> "histogram",
          value |-> [buckets |-> [i \in 1..Len(buckets) |->
                                     <<ToString(buckets[i]),
                                       ToString(entry.counts[i])>>],
                     sum_value |-> entry.sum]]
    ELSE [field |-> field, type |-> "gauge", value |-> entry]

RECURSIVE CollectFrom_stops_at_missing(_, _)
CollectFrom_stops_at_missing(host_metrics, fields) ==
    IF fields = <<>> THEN <<>>
    ELSE IF Falsy(host_metrics, Head(fields)) THEN <<>>
    ELSE <<MetricFamily(Head(fields), host_metrics[Head(fields)])>>
             \o CollectFrom_stops_at_missing(host_metrics, Tail(fields))

\* the loop over self._metrics.METRICS
RECURSIVE CollectFrom(_, _)
CollectFrom(host_metrics, fields) ==
    IF fields = <<>> THEN <<>>
    ELSE (IF Falsy(host_metrics, Head(fields)) THEN <<>>
          ELSE <<MetricFamily(Head(fields), host_metrics[Head(fields)])>>)
             \o CollectFrom(host_metrics, Tail(fields))

\* [families, none, raised]: none when collect returns None, raised when
\* host_metrics is None (AttributeError at the first metric)
collect(self, keys, my_hostname) ==
    LET instance_data == load_other_metrics(self, keys, {})
        host == EntryOf(instance_data, my_hostname)
    IN  IF instance_data = <<>>
        THEN [families |-> <<>>, none |-> TRUE, raised |-> FALSE]
        ELSE IF host = Nil
        THEN [families |-> <<>>, none |-> FALSE, raised |-> TRUE]
        ELSE [families |-> CollectFrom(instance_data[host[1]].data,
                                       Registry(self.namespace)),
              none |-> FALSE, raised |-> FALSE]

(***************************************************************************)
(* Inputs.                                                                 *)
(***************************************************************************)
Deltas == {-1, 0, 1}
GaugeValues == {0, 1, 2}
ObsValues == {5, 15, 20, 999}
\* a difference of two time.perf_counter() readings: positive, and its size
\* is immaterial to every metric but the two that record it
Durations == {1}

Abs(x) == IF x < 0 THEN -x ELSE x

RECURSIVE SumOver(_, _)
SumOver(f, S) ==
    IF S = {} THEN 0
    ELSE LET x == CHOOSE y \in S : TRUE IN f[x] + SumOver(f, S \ {x})

Pending(key) ==
    SumOver([p \in Procs |-> IF key \in DOMAIN m[p].METRICS
                             THEN m[p].METRICS[key].current_value ELSE 0],
            Procs)

CallsSoFar == BaseM_decode(hash, PipeCalls) + Pending(PipeCalls)

NObserved == SumOver(observed, ObsValues)

\* the time of the last publish, 0 (the epoch) when there was none
LastBroadcast ==
    IF publishes = <<>> THEN 0 ELSE publishes[Len(publishes)].current_time

NoFrame ==
    [current_time |-> 0, serialized_metrics |-> Nil, exc |-> FALSE,
     stored |-> FALSE, published |-> FALSE, overlap |-> {}, open |-> FALSE,
     seen |-> 0, result |-> "none"]

Running(p) == pc[p] # "idle"

NoResponse == [op |-> "none"]

\* load_other_metrics not running; `reads` is history: what each conn.get
\* of the last run returned
NoReader ==
    [pc |-> "idle", by |-> "p1", instances_filter |-> {}, names |-> <<>>,
     instance_data |-> <<>>, reads |-> <<>>]

(***************************************************************************)
(* Init: redis is empty, every process has constructed its Metrics object. *)
(***************************************************************************)
Setup(config) ==
    /\ now = StartTime
    /\ hash = [k \in HashKeys |-> Nil]
    /\ locks = [k \in LockNames |-> Nil]
    /\ instance_keys = [k \in InstanceKeys |-> Nil]
    /\ channel = Nil
    /\ m = [p \in Procs |->
              Metrics(config[p].namespace,
                      IF "auto_pipe_execute" \in DOMAIN config[p]
                      THEN config[p].auto_pipe_execute ELSE FALSE,
                      config[p].instance_name,
                      config[p].metrics_have_changed)]
    /\ pc = [p \in Procs |-> "idle"]
    /\ frame = [p \in Procs |-> NoFrame]
    /\ reader = NoReader
    /\ response = NoResponse
    /\ total = 0
    /\ observed = [v \in ObsValues |-> 0]
    /\ since = [p \in Procs |->
                  [ev |-> IF config[p].metrics_have_changed THEN "init"
                          ELSE "clean",
                   at |-> StartTime]]
    /\ reset_seen = FALSE
    /\ publishes = <<>>
    /\ last = <<"init", "-">>

\* both processes constructed with the default arguments, on one node or two
Init ==
    \E node \in Nodes :
        Setup([p \in Procs |->
                 [namespace |-> "callback_receiver",
                  instance_name |-> IF p = "p1" THEN "awx-1" ELSE node,
                  metrics_have_changed |-> TRUE]])

(***************************************************************************)
(* pipe_execute, up to its call of send_metrics.  `self` is the object of  *)
(* p as the caller left it and ev what the caller did to it.               *)
(***************************************************************************)
PipeExecuteFrom(p, self, ev) ==
    IF self.metrics_have_changed = TRUE
    THEN \E duration_to_save \in Durations :
         LET r == MergeBatch(self, hash, now, duration_to_save)
             others == {q \in Procs \ {p} : Running(q)}
         IN  /\ CallsSoFar < MaxCalls
             /\ hash' = r.conn
             /\ m' = [m EXCEPT ![p] = r.self]
             /\ pc' = [pc EXCEPT ![p] = "acquire"]
             /\ frame' = [q \in Procs |->
                   IF q = p
                   THEN [NoFrame EXCEPT
                           !.overlap = others,
                           !.seen = Len(publishes),
                           !.open = (now - LastBroadcast
                                        > send_metrics_interval)]
                   ELSE [frame[q] EXCEPT
                           !.overlap = IF q \in others THEN @ \cup {p}
                                       ELSE @ \ {p}]]
             /\ since' = [since EXCEPT ![p] = [ev |-> "flush", at |-> now]]
    ELSE /\ m' = [m EXCEPT ![p] = self]
         /\ since' = [since EXCEPT ![p].ev = IF ev = "" THEN @ ELSE ev]
         /\ UNCHANGED <<hash, pc, frame>>

pipe_execute(p) ==
    /\ pc[p] = "idle"
    /\ PipeExecuteFrom(p, m[p], "")
    /\ last' = <<"pipe_execute", p>>
    /\ UNCHANGED <<now, reader, response, locks, instance_keys, channel, total, observed,
                   reset_seen, publishes>>

\* a mutating call: the object after it, then the flush of auto_pipe_execute
AfterWrite_deferred(p, self, changed) ==
    /\ m' = [m EXCEPT ![p] = self]
    /\ since' = [since EXCEPT ![p].ev = IF changed THEN "write" ELSE @]
    /\ UNCHANGED <<hash, pc, frame>>

AfterWrite(p, self, changed) ==
    IF changed /\ self.auto_pipe_execute = TRUE
    THEN PipeExecuteFrom(p, self, "write")
    ELSE /\ m' = [m EXCEPT ![p] = self]
         /\ since' = [since EXCEPT ![p].ev = IF changed THEN "write" ELSE @]
         /\ UNCHANGED <<hash, pc, frame>>

inc(p, field, value) ==
    /\ pc[p] = "idle"
    /\ Abs(m[p].METRICS[field].current_value + value) <= MaxVal
    /\ Abs(total + value) <= MaxVal
    /\ AfterWrite(p, Metrics_inc(m[p], field, value), value # 0)
    /\ total' = IF reset_seen THEN total ELSE total + value
    /\ last' = <<"inc", p>>
    /\ UNCHANGED <<now, reader, response, locks, instance_keys, channel, observed, reset_seen,
                   publishes>>

set(p, field, value) ==
    /\ pc[p] = "idle"
    /\ AfterWrite(p, Metrics_set(m[p], field, value), TRUE)
    /\ last' = <<"set", p>>
    /\ UNCHANGED <<now, reader, response, locks, instance_keys, channel, total, observed,
                   reset_seen, publishes>>

observe(p, field, value) ==
    /\ pc[p] = "idle"
    /\ NObserved < MaxObs
    /\ AfterWrite(p, Metrics_observe(m[p], field, value), TRUE)
    /\ observed' = [observed EXCEPT ![value] = @ + 1]
    /\ last' = <<"observe", p>>
    /\ UNCHANGED <<now, reader, response, locks, instance_keys, channel, total, reset_seen,
                   publishes>>

(***************************************************************************)
(* reset_values, run with no other redis command in between.               *)
(***************************************************************************)
ResetValues(self, conn) ==
    LET st == ResetAll([acc |-> self.METRICS, conn |-> conn],
                       Registry(self.namespace))
    IN  [self |-> [self EXCEPT !.METRICS = st.acc,
                               !.metrics_have_changed = TRUE],
         conn |-> st.conn]

reset_values(p) ==
    /\ pc[p] = "idle"
    /\ LET r == ResetValues(m[p], hash)
       IN  /\ m' = [m EXCEPT ![p] = r.self]
           /\ hash' = r.conn
    /\ locks' = [locks EXCEPT ![root_key \o "_lock"] = Nil]
    /\ instance_keys' = [k \in InstanceKeys |->
                           IF k[1] = m[p].namespace THEN Nil
                           ELSE instance_keys[k]]
    /\ since' = [since EXCEPT ![p].ev = "reset"]
    /\ reset_seen' = TRUE
    /\ total' = 0
    /\ observed' = [v \in ObsValues |-> 0]
    /\ last' = <<"reset_values", p>>
    /\ UNCHANGED <<now, reader, response, channel, pc, frame, publishes>>

(***************************************************************************)
(* send_metrics, one redis command (or the publish) per step.              *)
(***************************************************************************)
\* lock.acquire(blocking=False): SET NX of the lock key
lock_acquire_unguarded(keys, name, owner) ==
    [ok |-> TRUE, keys |-> [keys EXCEPT ![name] = <<owner>>]]

lock_acquire(keys, name, owner) ==
    IF keys[name] = Nil
    THEN [ok |-> TRUE, keys |-> [keys EXCEPT ![name] = <<owner>>]]
    ELSE [ok |-> FALSE, keys |-> keys]

\* lock.release(): deletes the key if it still holds the owner's token,
\* raises LockNotOwnedError otherwise
lock_release_never(keys, name, owner) ==
    [ok |-> TRUE, keys |-> keys]

lock_release(keys, name, owner) ==
    IF keys[name] = <<owner>>
    THEN [ok |-> TRUE, keys |-> [keys EXCEPT ![name] = Nil]]
    ELSE [ok |-> FALSE, keys |-> keys]

\* the interval gate of send_metrics
IntervalNotChecked(current_time, conn) == TRUE

IntervalElapsed(current_time, conn) ==
    current_time - BaseM_decode(conn, SendTime) > send_metrics_interval

\* the end of pipe_execute once send_metrics has returned or raised
\* (raised: an exception of the try body, re-raised after the finally)
ReturnPropagatesReleaseError(p, raised, release_ok) ==
    /\ pc' = [pc EXCEPT ![p] = "idle"]
    /\ frame' = [frame EXCEPT
                   ![p].result = IF raised \/ ~release_ok THEN "raised"
                                 ELSE "returned",
                   ![p].serialized_metrics = Nil]
    /\ \E duration_to_save \in Durations :
          m' = IF raised \/ ~release_ok THEN m
               ELSE [m EXCEPT ![p].METRICS[SendSecs] =
                                   BaseM_inc(@, duration_to_save)]

Return(p, raised, release_ok) ==
    /\ pc' = [pc EXCEPT ![p] = "idle"]
    /\ frame' = [frame EXCEPT
                   ![p].result = IF raised THEN "raised" ELSE "returned",
                   ![p].serialized_metrics = Nil]
    /\ \E duration_to_save \in Durations :
          m' = IF raised THEN m
               ELSE [m EXCEPT ![p].METRICS[SendSecs] =
                                   BaseM_inc(@, duration_to_save)]

send_metrics_acquire(p) ==
    /\ pc[p] = "acquire"
    /\ LET r == lock_acquire(locks, LockName(m[p].namespace), p)
       IN  /\ locks' = r.keys
           /\ IF r.ok
              THEN /\ pc' = [pc EXCEPT ![p] = "gate"]
                   /\ UNCHANGED <<m, frame>>
              ELSE Return(p, FALSE, TRUE)
    /\ last' = <<"send_metrics_acquire", p>>
    /\ UNCHANGED <<now, reader, response, hash, instance_keys, channel, history>>

send_metrics_gate(p) ==
    /\ pc[p] = "gate"
    /\ frame' = [frame EXCEPT ![p].current_time = now]
    /\ pc' = [pc EXCEPT ![p] = IF IntervalElapsed(now, hash) THEN "serialize"
                               ELSE "release"]
    /\ last' = <<"send_metrics_gate", p>>
    /\ UNCHANGED <<now, reader, response, redis, channel, m, history>>

send_metrics_serialize(p) ==
    /\ pc[p] = "serialize"
    /\ frame' = [frame EXCEPT
                   ![p].serialized_metrics =
                       serialize_local_metrics(m[p], hash)]
    /\ pc' = [pc EXCEPT ![p] = "store"]
    /\ last' = <<"send_metrics_serialize", p>>
    /\ UNCHANGED <<now, reader, response, redis, channel, m, history>>

send_metrics_store(p) ==
    /\ pc[p] = "store"
    /\ instance_keys' =
          [instance_keys EXCEPT ![<<m[p].namespace, m[p].instance_name>>] =
                                    <<frame[p].serialized_metrics>>]
    /\ frame' = [frame EXCEPT ![p].stored = TRUE]
    /\ pc' = [pc EXCEPT ![p] = "emit"]
    /\ last' = <<"send_metrics_store", p>>
    /\ UNCHANGED <<now, reader, response, hash, locks, channel, m, history>>

\* a publish that would serialize the hash again instead of sending what
\* was stored
send_metrics_emit_reserialized(p) ==
    /\ pc[p] = "emit"
    /\ channel' = <<[instance |-> m[p].instance_name,
                      metrics |-> serialize_local_metrics(m[p], hash),
                      metrics_namespace |-> m[p].namespace]>>
    /\ publishes' = Append(publishes,
                           [by |-> p, namespace |-> m[p].namespace,
                            current_time |-> frame[p].current_time])
    /\ frame' = [frame EXCEPT ![p].published = TRUE]
    /\ pc' = [pc EXCEPT ![p] = "stamp"]
    /\ last' = <<"send_metrics_emit", p>>
    /\ UNCHANGED <<now, reader, response, redis, m, total, observed, since,
                   reset_seen>>

send_metrics_emit(p) ==
    /\ pc[p] = "emit"
    /\ channel' = <<[instance |-> m[p].instance_name,
                      metrics |-> frame[p].serialized_metrics,
                      metrics_namespace |-> m[p].namespace]>>
    /\ publishes' = Append(publishes,
                           [by |-> p, namespace |-> m[p].namespace,
                            current_time |-> frame[p].current_time])
    /\ frame' = [frame EXCEPT ![p].published = TRUE]
    /\ pc' = [pc EXCEPT ![p] = "stamp"]
    /\ last' = <<"send_metrics_emit", p>>
    /\ UNCHANGED <<now, reader, response, redis, m, total, observed, since, reset_seen>>

\* previous_send_metrics.set(current_time); .store_value(self.conn)
send_metrics_stamp(p) ==
    /\ pc[p] = "stamp"
    /\ LET mv == BaseM_set(m[p].previous_send_metrics, frame[p].current_time)
       IN  /\ hash' = hset(hash, SendTime, mv.current_value)
           /\ m' = [m EXCEPT ![p].previous_send_metrics =
                                 [mv EXCEPT !.metric_has_changed = FALSE]]
    /\ pc' = [pc EXCEPT ![p] = "release"]
    /\ last' = <<"send_metrics_stamp", p>>
    /\ UNCHANGED <<now, reader, response, locks, instance_keys, channel, frame, history>>

\* the finally block, then the rest of pipe_execute
send_metrics_release(p) ==
    /\ pc[p] = "release"
    /\ LET r == lock_release(locks, LockName(m[p].namespace), p)
       IN  /\ locks' = r.keys
           /\ Return(p, frame[p].exc, r.ok)
           /\ last' = <<IF r.ok THEN "send_metrics_release"
                        ELSE "send_metrics_release_failed", p>>
    /\ UNCHANGED <<now, reader, response, hash, instance_keys, channel, history>>

(***************************************************************************)
(* load_other_metrics of a request served with the object of p: the scan,  *)
(* then one conn.get per step.                                             *)
(***************************************************************************)
NodeFilters == {{}, {"awx-1"}, {"awx-2"}, {"awx-9"}, {"awx-1", "awx-9"}}

load_other_metrics_scan(p, instances_filter) ==
    /\ reader.pc # "reading"
    /\ reader' = [pc |-> "reading", by |-> p,
                  instances_filter |-> instances_filter,
                  names |-> instance_names(m[p], instance_keys),
                  instance_data |-> <<>>, reads |-> <<>>]
    /\ last' = <<"load_other_metrics_scan", p>>
    /\ UNCHANGED <<now, redis, channel, m, pc, frame, response, history>>

load_other_metrics_get ==
    /\ reader.pc = "reading"
    /\ LET instance == Head(reader.names)
           self == m[reader.by]
       IN  reader' =
             [reader EXCEPT
                !.instance_data = ReadInstance(self, instance_keys,
                                               reader.instances_filter, @,
                                               instance),
                !.reads = IF reader.instances_filter = {}
                             \/ instance \in reader.instances_filter
                          THEN Append(@, [instance |-> instance,
                                          value |-> instance_keys[
                                              <<self.namespace, instance>>]])
                          ELSE @,
                !.names = Tail(@),
                !.pc = IF Tail(reader.names) = <<>> THEN "done" ELSE "reading"]
    /\ last' = <<"load_other_metrics_get", reader.by>>
    /\ UNCHANGED <<now, redis, channel, m, pc, frame, response, history>>

(***************************************************************************)
(* Requests: generate_metrics and the collector, served with the object of *)
(* p, each reading redis in one step.                                      *)
(***************************************************************************)
MetricFilters == {{}, {Counter}, {Histo}, {Gauge, Histo}, {"no_such_metric"}}

generate_metrics_request(p, instances_filter, metrics_filter) ==
    /\ response' =
          [op |-> "generate_metrics", by |-> p,
           instances_filter |-> instances_filter,
           metrics_filter |-> metrics_filter,
           result |-> generate_metrics(m[p], instance_keys, instances_filter,
                                       metrics_filter)]
    /\ last' = <<"generate_metrics", p>>
    /\ UNCHANGED <<now, redis, channel, m, pc, frame, reader, history>>

collect_request(p) ==
    /\ response' = [op |-> "collect", by |-> p,
                    result |-> collect(m[p], instance_keys,
                                       m[p].instance_name)]
    /\ last' = <<"collect", p>>
    /\ UNCHANGED <<now, redis, channel, m, pc, frame, reader, history>>

\* a process of an older release on `node`, whose registry has no metric
\* `field`, stores its snapshot (the conn.set of its send_metrics)
stale_send_metrics_store(node, namespace, field) ==
    /\ instance_keys' =
          [instance_keys EXCEPT ![<<namespace, node>>] =
              <<json_dumps([f \in FieldsOf(namespace) \ {field} |->
                               decode(hash, f)])>>]
    /\ last' = <<"stale_send_metrics_store", node>>
    /\ UNCHANGED <<now, hash, locks, channel, m, pc, frame, reader, response,
                   history>>

Tick ==
    /\ now < MaxTime
    /\ now' = now + 1
    /\ last' = <<"tick", "-">>
    /\ UNCHANGED <<redis, channel, m, pc, frame, reader, response, history>>

(***************************************************************************)
(* Faults: a redis command or the publish of the try body raises; redis    *)
(* loses the lock key (restart, eviction) while it is held.                *)
(***************************************************************************)
\* a finally block that would record the attempt in the timestamp
send_metrics_raise_stamps(p) ==
    /\ pc[p] \in {"gate", "serialize", "store", "emit", "stamp"}
    /\ frame' = [frame EXCEPT ![p].exc = TRUE]
    /\ pc' = [pc EXCEPT ![p] = "release"]
    /\ hash' = hset(hash, SendTime, now)
    /\ last' = <<"send_metrics_raise", p>>
    /\ UNCHANGED <<now, reader, response, locks, instance_keys, channel, m,
                   history>>

send_metrics_raise(p) ==
    /\ pc[p] \in {"gate", "serialize", "store", "emit", "stamp"}
    /\ frame' = [frame EXCEPT ![p].exc = TRUE]
    /\ pc' = [pc EXCEPT ![p] = "release"]
    /\ last' = <<"send_metrics_raise", p>>
    /\ UNCHANGED <<now, reader, response, redis, channel, m, history>>

lock_lost(name) ==
    /\ locks[name] # Nil
    /\ locks' = [locks EXCEPT ![name] = Nil]
    /\ last' = <<"lock_lost", "-">>
    /\ UNCHANGED <<now, reader, response, hash, instance_keys, channel, m, pc, frame, history>>

(***************************************************************************)
(* Specifications.                                                         *)
(***************************************************************************)
SendSteps(p) ==
    \/ send_metrics_acquire(p)
    \/ send_metrics_gate(p)
    \/ send_metrics_serialize(p)
    \/ send_metrics_store(p)
    \/ send_metrics_emit(p)
    \/ send_metrics_stamp(p)
    \/ send_metrics_release(p)

\* both processes constructed with the default arguments on one node
InitOneNode ==
    Setup([p \in Procs |->
             [namespace |-> "callback_receiver",
              instance_name |-> "awx-1", metrics_have_changed |-> TRUE]])

\* one process on each node; p1 with either value of metrics_have_changed
InitSolo ==
    \E changed \in BOOLEAN :
        Setup([p \in Procs |->
                 [namespace |-> "callback_receiver",
                  instance_name |-> IF p = "p1" THEN "awx-1" ELSE "awx-2",
                  metrics_have_changed |-> IF p = "p1" THEN changed ELSE TRUE]])

\* counter increments and flushes of both processes, the clock standing
NextMerge ==
    \/ \E p \in Procs, value \in Deltas : inc(p, Counter, value)
    \/ \E p \in Procs : pipe_execute(p)
    \/ \E p \in Procs : SendSteps(p)

SpecMerge == InitOneNode /\ [][NextMerge]_vars

\* both processes write, flush and broadcast while the clock advances
NextBroadcast ==
    \/ \E p \in Procs : set(p, Gauge, 1)
    \/ \E p \in Procs : pipe_execute(p)
    \/ \E p \in Procs : SendSteps(p)
    \/ Tick

SpecBroadcast == Init /\ [][NextBroadcast]_vars

\* the same with the faults, the clock standing
NextFault ==
    \/ \E p \in Procs : set(p, Gauge, 1)
    \/ \E p \in Procs : pipe_execute(p)
    \/ \E p \in Procs : SendSteps(p)
    \/ \E p \in Procs : send_metrics_raise(p)
    \/ \E ns \in Namespaces : lock_lost(LockName(ns))

SpecFault == InitOneNode /\ [][NextFault]_vars

\* one process observes, flushes and resets, the clock standing
NextHist ==
    \/ \E value \in ObsValues : observe("p1", Histo, value)
    \/ pipe_execute("p1")
    \/ SendSteps("p1")
    \/ reset_values("p1")

SpecHist == InitSolo /\ [][NextHist]_vars

\* one process writes a metric of each kind, flushes, broadcasts and resets
NextReset ==
    \/ inc("p1", Counter, 1)
    \/ set("p1", Gauge, 2)
    \/ observe("p1", Histo, 15)
    \/ pipe_execute("p1")
    \/ SendSteps("p1")
    \/ reset_values("p1")

SpecReset == InitSolo /\ [][NextReset]_vars

\* one process increments, flushes and resets while the clock advances
Next ==
    \/ \E value \in {0, 1} : inc("p1", Counter, value)
    \/ pipe_execute("p1")
    \/ SendSteps("p1")
    \/ reset_values("p1")
    \/ Tick

Spec == InitSolo /\ [][Next]_vars

\* one process increments by any delta and flushes, the clock standing
NextBatch ==
    \/ \E value \in Deltas : inc("p1", Counter, value)
    \/ pipe_execute("p1")
    \/ SendSteps("p1")

SpecBatch == InitSolo /\ [][NextBatch]_vars

(***************************************************************************)
(* Properties.                                                             *)
(***************************************************************************)
Unflushed(p) == since[p].ev = "write"

\* C1: the shared value of an additive field plus the deltas the processes
\* have not merged yet is the sum of all increments made, under every
\* interleaving of inc and pipe_execute; once no process holds an unflushed
\* increment the shared value is that sum.
C1_AdditiveMergesLoseNothing ==
    ~reset_seen =>
        /\ BaseM_decode(hash, Counter) + Pending(Counter) = total
        /\ (\A p \in Procs : ~Unflushed(p)) =>
               BaseM_decode(hash, Counter) = total

\* both processes hold a delta while the store holds a merged one
C1_Witness ==
    /\ BaseM_decode(hash, Counter) # 0
    /\ \A p \in Procs : m[p].METRICS[Counter].current_value # 0
    /\ \A p \in Procs : since[p].at = StartTime /\ Unflushed(p)
    /\ CallsSoFar >= 2

\* the shared value of Counter after the calls of `script` on the object
\* self and the hash conn; a call is <<"inc", delta>> or <<"flush">>
RECURSIVE CounterAfter(_, _, _)
CounterAfter(self, conn, script) ==
    IF script = <<>> THEN BaseM_decode(conn, Counter)
    ELSE LET call == Head(script)
         IN  IF call[1] = "inc"
             THEN CounterAfter(Metrics_inc(self, Counter, call[2]), conn,
                               Tail(script))
             ELSE LET r == Metrics_pipe_execute(self, conn, now, 1)
                  IN  CounterAfter(r.self, r.conn, Tail(script))

\* C2: from the same object and the same shared store, inc(a); inc(b); flush
\* leaves the same shared value of the field as inc(a); flush; inc(b); flush,
\* and as both with b before a.
C2_BatchingKeepsTheAggregate ==
    \A p \in Procs, a \in Deltas, b \in Deltas :
        LET one == CounterAfter(m[p], hash,
                                <<<<"inc", a>>, <<"inc", b>>, <<"flush">>>>)
        IN  /\ one = CounterAfter(m[p], hash,
                  <<<<"inc", a>>, <<"flush">>, <<"inc", b>>, <<"flush">>>>)
            /\ one = CounterAfter(m[p], hash,
                  <<<<"inc", b>>, <<"inc", a>>, <<"flush">>>>)
            /\ one = CounterAfter(m[p], hash,
                  <<<<"inc", b>>, <<"flush">>, <<"inc", a>>, <<"flush">>>>)

\* a store that already holds a merged value, an object that holds a delta:
\* the scripts start from a state flushes and increments have made
C2_Witness ==
    /\ BaseM_decode(hash, Counter) = 1
    /\ m["p1"].METRICS[Counter].current_value = 1
    /\ pc["p1"] = "idle"
    /\ CounterAfter(m["p1"], hash,
                    <<<<"inc", 1>>, <<"flush">>, <<"inc", -1>>, <<"flush">>>>) = 2

\* C3: should_pipe_execute is false after a flush with no write since,
\* whatever the clock; true once a write is unflushed and more than
\* pipe_execute_interval has passed since the last flush that ran (or the
\* construction); and true only if the namespace is dirty and strictly more
\* than the interval has passed.
C3_ShouldFlush ==
    \A p \in Procs :
        LET should == should_pipe_execute(m[p], now)
            elapsed == now - since[p].at
        IN  /\ since[p].ev = "flush" => ~should
            /\ (Unflushed(p) /\ elapsed > pipe_execute_interval) => should
            /\ should => (since[p].ev \notin {"flush", "clean"}
                          /\ elapsed > pipe_execute_interval)

\* a write after a flush that ran, and the interval has passed since
C3_Witness ==
    /\ Unflushed("p1")
    /\ CallsSoFar >= 1
    /\ now - since["p1"].at > pipe_execute_interval
    /\ should_pipe_execute(m["p1"], now)

\* what a flush that does nothing leaves alone: redis, the channel and every
\* local of every process
FlushFrame == <<hash, locks, instance_keys, channel, publishes, m, pc, frame>>

\* C4 as claimed: pipe_execute does nothing whenever no inc/set/observe was
\* made since the last flush, a just constructed and a just reset namespace
\* included.
C4_FlushNoOpUnlessWritten ==
    [][\A p \in Procs :
          (last' = <<"pipe_execute", p>> /\ ~Unflushed(p))
              => UNCHANGED FlushFrame]_vars

\* C4, amended: pipe_execute does nothing (no redis write, no broadcast
\* attempt, no publish, no local change) whenever the last thing that
\* happened to the namespace's values is a flush that ran, or its
\* construction with metrics_have_changed=False.
C4_FlushNoOpWhenClean ==
    [][\A p \in Procs :
          (last' = <<"pipe_execute", p>> /\ since[p].ev \in {"flush", "clean"})
              => UNCHANGED FlushFrame]_vars

\* a flush that did nothing, after one that ran: the call count of the
\* first is still waiting in the accumulator
C4_Witness ==
    /\ last = <<"pipe_execute", "p1">>
    /\ pc["p1"] = "idle"
    /\ since["p1"].ev = "flush"
    /\ frame["p1"].result = "returned"
    /\ m["p1"].METRICS[PipeCalls].current_value = 1

Min(a, b) == IF a <= b THEN a ELSE b

\* two finished send_metrics calls that ran at the same time, each started
\* with more than send_metrics_interval since the last broadcast, and no
\* publish but theirs since the first of them started
ConcurrentAttempts(p, q) ==
    /\ p # q
    /\ pc[p] = "idle" /\ pc[q] = "idle"
    /\ q \in frame[p].overlap /\ p \in frame[q].overlap
    /\ frame[p].open /\ frame[q].open
    /\ Len(publishes) - Min(frame[p].seen, frame[q].seen)
          = (IF frame[p].published THEN 1 ELSE 0)
              + (IF frame[q].published THEN 1 ELSE 0)

\* C5 as claimed: of two concurrent send_metrics calls exactly one
\* publishes, under every interleaving, and neither raises.
C5_ExactlyOnePublishes ==
    \A p \in Procs, q \in Procs :
        ConcurrentAttempts(p, q) =>
            /\ frame[p].published # frame[q].published
            /\ frame[p].result = "returned" /\ frame[q].result = "returned"

\* C5, amended: of two concurrent send_metrics calls at least one publishes
\* and neither raises; both publish only if the second read its clock more
\* than send_metrics_interval after the first (exactly one publishes within
\* one interval window).
C5_OnePublishesPerWindow ==
    \A p \in Procs, q \in Procs :
        ConcurrentAttempts(p, q) =>
            /\ frame[p].published \/ frame[q].published
            /\ frame[p].result = "returned" /\ frame[q].result = "returned"
            /\ (frame[p].published /\ frame[q].published) =>
                   Abs(frame[p].current_time - frame[q].current_time)
                       > send_metrics_interval

\* p1 published, p2 ran at the same time, found the lock taken and returned
C5_Witness ==
    /\ ConcurrentAttempts("p1", "p2")
    /\ frame["p1"].published /\ ~frame["p2"].published
    /\ frame["p2"].result = "returned"
    /\ frame["p2"].current_time = 0

InGate(p) == pc[p] \in {"gate", "serialize", "store", "emit", "stamp", "release"}

C8_ReleaseFailureSwallowed ==
    [][\A p \in Procs :
          (last' = <<"send_metrics_release_failed", p>> /\ pc[p] = "release")
              => /\ pc'[p] = "idle"
                 /\ ~frame[p].exc => frame'[p].result = "returned"
                 /\ UNCHANGED <<hash, locks, instance_keys, channel,
                                publishes>>]_vars

\* p1 published, lost the lock, failed to release it and returned; its
\* snapshot and its timestamp are in redis
C8_Witness ==
    /\ last = <<"send_metrics_release_failed", "p1">>
    /\ pc["p1"] = "idle"
    /\ frame["p1"].published
    /\ frame["p1"].result = "returned"
    /\ instance_keys[<<m["p1"].namespace, m["p1"].instance_name>>] # Nil
    /\ BaseM_decode(hash, SendTime) = frame["p1"].current_time

ZeroHistogram ==
    [counts |-> [i \in 1..Len(buckets) |-> 0], sum |-> 0, inf |-> 0]

\* C9: right after reset_values every scalar metric decodes to zero, every
\* histogram to zero counts, total and sum, every accumulator of the caller
\* is zero, no snapshot key of the namespace exists and load_other_metrics
\* returns nothing.
C9_ResetZeroesEverything ==
    \A p \in Procs :
        last = <<"reset_values", p>> =>
            /\ \A field \in Fields :
                  decode(hash, field) =
                      IF Kind(field) = "HistogramM" THEN ZeroHistogram ELSE 0
            /\ \A key \in Keys : m[p].METRICS[key].current_value = 0
            /\ \A node \in Nodes :
                  instance_keys[<<m[p].namespace, node>>] = Nil
            /\ DOMAIN load_other_metrics(m[p], instance_keys, {}) = {}

\* a reset after p1 published, with writes of each kind not yet flushed
C9_Witness ==
    /\ last = <<"reset_values", "p1">>
    /\ publishes # <<>>
    /\ m["p1"].METRICS[Counter].metric_has_changed
    /\ m["p1"].METRICS[Gauge].metric_has_changed
    /\ m["p1"].METRICS[sum_key].metric_has_changed
    /\ m["p1"].METRICS[PipeCalls].metric_has_changed

\* the bucket an observation belongs to: the one whose boundary is the least
\* boundary >= value; 0 when the value exceeds every boundary
BucketOf(value) ==
    IF \A i \in 1..Len(buckets) : value > buckets[i] THEN 0
    ELSE CHOOSE i \in 1..Len(buckets) :
            /\ value <= buckets[i]
            /\ \A j \in 1..Len(buckets) : value <= buckets[j] => i <= j

ObservedIn(i) ==
    SumOver([v \in ObsValues |-> IF BucketOf(v) = i THEN observed[v] ELSE 0],
            ObsValues)

ObservedSum == SumOver([v \in ObsValues |-> v * observed[v]], ObsValues)

\* C10: each observation adds 1 to the bucket of the least boundary >= value
\* (to none above the highest), 1 to the total and value to the sum: merged
\* plus pending counts are the observations made since the reset, and after
\* a flush the decoded histogram holds them.
C10_HistogramCounts ==
    /\ \A i \in 1..Len(buckets) :
          BaseM_decode(hash, buckets_to_keys[i]) + Pending(buckets_to_keys[i])
              = ObservedIn(i)
    /\ BaseM_decode(hash, inf_key) + Pending(inf_key) = NObserved
    /\ BaseM_decode(hash, sum_key) + Pending(sum_key) = ObservedSum
    /\ (\A p \in Procs : ~Unflushed(p)) =>
           decode(hash, Histo) =
               [counts |-> [i \in 1..Len(buckets) |-> ObservedIn(i)],
                sum |-> ObservedSum, inf |-> NObserved]

\* 5, 15 and 999 observed and flushed: counts [1, 1, 0], total 3, sum 1019
C10_Witness ==
    /\ observed = [v \in ObsValues |-> IF v \in {5, 15, 999} THEN 1 ELSE 0]
    /\ ~Unflushed("p1")
    /\ decode(hash, Histo) = [counts |-> <<1, 1, 0>>, sum |-> 1019, inf |-> 3]

\* the first flush and broadcast of the process of awx-2, made at StartTime
\* on an empty redis: its object, the hash and the snapshot text after them
PeerBroadcast ==
    LET r == MergeBatch(Metrics("callback_receiver", FALSE, "awx-2", TRUE),
                        [k \in HashKeys |-> Nil], StartTime, 1)
        mv == BaseM_set(r.self.previous_send_metrics, StartTime)
    IN  [self |-> [r.self EXCEPT
                     !.previous_send_metrics =
                         [mv EXCEPT !.metric_has_changed = FALSE],
                     !.METRICS[SendSecs] = BaseM_inc(@, 1)],
         conn |-> hset(r.conn, SendTime, StartTime),
         text |-> serialize_local_metrics(r.self, r.conn)]

\* p1 on awx-1 just constructed; p2 on awx-2 has flushed and broadcast at
\* StartTime, and the clock has passed the broadcast interval since
InitAfterPeerBroadcast ==
    /\ now = StartTime + send_metrics_interval + 1
    /\ hash = PeerBroadcast.conn
    /\ locks = [k \in LockNames |-> Nil]
    /\ instance_keys = [k \in InstanceKeys |->
                          IF k = <<"callback_receiver", "awx-2">>
                          THEN <<PeerBroadcast.text>> ELSE Nil]
    /\ channel = <<[instance |-> "awx-2", metrics |-> PeerBroadcast.text,
                     metrics_namespace |-> "callback_receiver"]>>
    /\ m = [p \in Procs |->
              IF p = "p1" THEN Metrics("callback_receiver", FALSE, "awx-1", TRUE)
              ELSE PeerBroadcast.self]
    /\ pc = [p \in Procs |-> "idle"]
    /\ frame = [p \in Procs |->
                  IF p = "p1" THEN NoFrame
                  ELSE [NoFrame EXCEPT !.current_time = StartTime,
                                       !.stored = TRUE, !.published = TRUE,
                                       !.open = TRUE,
                                       !.result = "returned"]]
    /\ reader = NoReader
    /\ response = NoResponse
    /\ total = 0
    /\ observed = [v \in ObsValues |-> 0]
    /\ since = [p \in Procs |->
                  [ev |-> IF p = "p1" THEN "init" ELSE "flush",
                   at |-> StartTime]]
    /\ reset_seen = FALSE
    /\ publishes = <<[by |-> "p2", namespace |-> "callback_receiver",
                       current_time |-> StartTime]>>
    /\ last = <<"tick", "-">>

\* awx-1 writes, flushes, broadcasts and resets while requests with and
\* without a node filter are served; awx-2 has broadcast before
NextRead ==
    \/ inc("p1", Counter, 1)
    \/ pipe_execute("p1")
    \/ SendSteps("p1")
    \/ reset_values("p1")
    \/ \E instances_filter \in NodeFilters :
          load_other_metrics_scan("p1", instances_filter)
    \/ load_other_metrics_get

SpecRead == InitAfterPeerBroadcast /\ [][NextRead]_vars

\* C11: in every reachable state load_other_metrics returns an entry for its
\* own node, and that entry is the current decode of the shared store for
\* every field (not the node's stored snapshot).
C11_OwnNodeIsLive ==
    \A p \in Procs :
        LET instance_data == load_other_metrics(m[p], instance_keys, {})
            own == EntryOf(instance_data, m[p].instance_name)
        IN  /\ own # Nil
            /\ instance_data[own[1]].data = load_local_metrics(m[p], hash)

\* the entries load_other_metrics builds from what its conn.get calls
\* returned: one per value read, in the order of the reads
RECURSIVE EntriesOf(_)
EntriesOf(reads) ==
    IF reads = <<>> THEN <<>>
    ELSE LET r == Head(reads)
         IN  (IF r.value = Nil THEN <<>>
              ELSE <<[instance |-> r.instance, data |-> json_loads(r.value[1])]>>)
                 \o EntriesOf(Tail(reads))

\* C13: a node whose snapshot key holds no value when it is read (never
\* stored, or deleted after the scan) is left out of the aggregation; the
\* entries of the other nodes are the snapshots read, in the order read.
C13_MissingSnapshotLeftOut ==
    /\ reader.instance_data = EntriesOf(reader.reads)
    /\ \A i \in 1..Len(reader.reads) :
          reader.reads[i].value = Nil =>
              EntryOf(reader.instance_data, reader.reads[i].instance) = Nil

\* both keys were there at the scan, that of awx-1 was read, a reset deleted
\* the keys, that of awx-2 was read as nil: the aggregation holds awx-1 only
C13_Witness ==
    /\ reader.pc = "done"
    /\ Len(reader.reads) = 2
    /\ reader.reads[1].value # Nil
    /\ reader.reads[2] = [instance |-> "awx-2", value |-> Nil]
    /\ Len(reader.instance_data) = 1
    /\ reader.instance_data[1].instance = "awx-1"

\* the filters of the requests that are served
RequestFilters ==
    {<<{}, {}>>, <<{"awx-2"}, {Counter}>>}

\* the answer has reached the client
respond ==
    /\ response # NoResponse
    /\ response' = NoResponse
    /\ last' = <<"respond", "-">>
    /\ UNCHANGED <<now, redis, channel, m, pc, frame, reader, history>>

\* awx-1 observes, flushes and broadcasts, a process of an older release on
\* its node stores snapshots without the histogram, and requests are served.  `response`
\* is read by no step, so a request is answered before the next step.
NextRender ==
    \/ /\ response = NoResponse
       /\ \/ \E value \in {5, 15} : observe("p1", Histo, value)
          \/ pipe_execute("p1")
          \/ SendSteps("p1")
          \/ stale_send_metrics_store("awx-1", "callback_receiver", Histo)
          \/ \E filters \in RequestFilters :
                generate_metrics_request("p1", filters[1], filters[2])
          \/ collect_request("p1")
    \/ respond

SpecRender == InitAfterPeerBroadcast /\ [][NextRender]_vars

\* the lines of a text, as a set
Lines(output_text) == {output_text[i] : i \in 1..Len(output_text)}

\* C12: with a node filter F the aggregation is the unfiltered one
\* restricted to the nodes of F, in the same order; a filter naming no
\* existing node gives no node and an empty text, without an error; a
\* metric filter leaves the lines of the requested metrics, as they are.
C12_FiltersAreIntersections ==
    \A p \in Procs :
        LET all == load_other_metrics(m[p], instance_keys, {})
        IN  /\ \A F \in NodeFilters \ {{}} :
                  load_other_metrics(m[p], instance_keys, F)
                      = SelectSeq(all, LAMBDA e : e.instance \in F)
            /\ load_other_metrics(m[p], instance_keys, {"awx-9"}) = <<>>
            /\ \A M \in MetricFilters :
                  generate_metrics(m[p], instance_keys, {"awx-9"}, M)
                      = [output_text |-> <<>>, raised |-> FALSE]
            /\ \A F \in NodeFilters, M \in MetricFilters \ {{}} :
                  LET full == generate_metrics(m[p], instance_keys, F, {})
                      part == generate_metrics(m[p], instance_keys, F, M)
                  IN  ~full.raised =>
                         /\ ~part.raised
                         /\ part.output_text =
                               SelectSeq(full.output_text,
                                         LAMBDA line : line[1] \in M)

\* both nodes have a snapshot; the request for a node that does not exist
\* was answered with the empty text, the one for awx-2 with its lines only
C12_Witness ==
    /\ Len(load_other_metrics(m["p1"], instance_keys, {})) = 2
    /\ response.op = "generate_metrics"
    /\ response.instances_filter = {"awx-2"}
    /\ response.metrics_filter = {Counter}
    /\ response.result =
          generate_metrics(m["p1"], instance_keys, {"awx-2"}, {Counter})
    /\ Len(response.result.output_text) = 3

\* the value of the one line with this name and these labels, Nil when
\* there is not exactly one
ValueOf(output_text, name, labels) ==
    LET found == {l \in Lines(output_text) :
                     Len(l) = 4 /\ l[2] = name /\ l[3] = labels}
        at == {i \in 1..Len(output_text) : output_text[i] \in found}
    IN  IF Cardinality(at) = 1 THEN <<(CHOOSE l \in found : TRUE)[4]>>
        ELSE Nil

\* C15: in a rendered histogram the bucket line of index i of a node is the
\* sum of the node's decoded counts of the buckets up to i, the +Inf bucket
\* and the _count line are the decoded total and the _sum line the decoded
\* sum; the bucket values of a node do not decrease.
C15_HistogramIsCumulative ==
    \A p \in Procs, F \in NodeFilters :
        LET instance_data == load_other_metrics(m[p], instance_keys, F)
            r == to_prometheus(Histo, instance_data)
        IN  ~r.raised =>
              \A k \in 1..Len(instance_data) :
                 LET node == instance_data[k].instance
                     entry == instance_data[k].data[Histo]
                     bucket(i) ==
                         ValueOf(r.output_text, Histo \o "_bucket",
                                 <<"le", ToString(buckets[i]), "node", node>>)
                 IN  /\ \A i \in 1..Len(buckets) :
                           bucket(i) =
                               <<SumOver([j \in 1..i |-> entry.counts[j]],
                                         1..i)>>
                     /\ \A i \in 1..(Len(buckets) - 1) :
                           bucket(i)[1] <= bucket(i + 1)[1]
                     /\ ValueOf(r.output_text, Histo \o "_bucket",
                                <<"le", "+Inf", "node", node>>) = <<entry.inf>>
                     /\ ValueOf(r.output_text, Histo \o "_count",
                                <<"node", node>>) = <<entry.inf>>
                     /\ ValueOf(r.output_text, Histo \o "_sum",
                                <<"node", node>>) = <<entry.sum>>

\* awx-1 has broadcast the counts [1, 1, 0]: the answer to a request holds
\* the bucket lines 1, 2, 2 and +Inf 2 of awx-1
C15_Witness ==
    /\ response.op = "generate_metrics"
    /\ response.result =
          generate_metrics(m["p1"], instance_keys, response.instances_filter,
                           response.metrics_filter)
    /\ ~response.result.raised
    /\ {<<Histo, Histo \o "_bucket", <<"le", "10", "node", "awx-1">>, 1>>,
        <<Histo, Histo \o "_bucket", <<"le", "20", "node", "awx-1">>, 2>>,
        <<Histo, Histo \o "_bucket", <<"le", "50", "node", "awx-1">>, 2>>,
        <<Histo, Histo \o "_bucket", <<"le", "+Inf", "node", "awx-1">>, 2>>}
          \subseteq Lines(response.result.output_text)

\* C16: for every requested metric of any kind the renderer raises no error
\* and emits one HELP/TYPE header and then the samples of exactly the nodes
\* of the aggregation whose snapshot contains the field.
C16_RenderingToleratesDrift ==
    \A p \in Procs, F \in NodeFilters :
      \A field \in FieldsOf(m[p].namespace) :
        LET instance_data == load_other_metrics(m[p], instance_keys, F)
            r == to_prometheus(field, instance_data)
        IN  /\ ~r.raised
            /\ SelectSeq(r.output_text, LAMBDA line : Len(line) < 4)
                  \in {Header(field, "gauge"), Header(field, "histogram")}
            /\ \A k \in 1..Len(instance_data) :
                  (field \in DOMAIN instance_data[k].data)
                     <=> \E line \in Lines(r.output_text) :
                            /\ Len(line) = 4
                            /\ line[3][Len(line[3])] = instance_data[k].instance

\* the families of a collect, by field
FamiliesOf(families, field) ==
    {i \in 1..Len(families) : families[i].field = field}

KeyError(self, field) == field \notin FieldsOf(self.namespace)

\* inc looks the field up only inside `if value != 0:`
Metrics_inc_raises(self, field, value) == value # 0 /\ KeyError(self, field)

Metrics_set_raises(self, field, value) == KeyError(self, field)

Metrics_observe_raises(self, field, value) == KeyError(self, field)

Metrics_get_raises(self, field) == KeyError(self, field)

Metrics_decode_raises(self, field) == KeyError(self, field)

Calls == {"inc", "set", "observe", "get", "decode"}

Raises(self, op, field, value) ==
    CASE op = "inc" -> Metrics_inc_raises(self, field, value)
      [] op = "set" -> Metrics_set_raises(self, field, value)
      [] op = "observe" -> Metrics_observe_raises(self, field, value)
      [] op = "get" -> Metrics_get_raises(self, field)
      [] op = "decode" -> Metrics_decode_raises(self, field)

\* a metric of no namespace, and a metric of the dispatcher namespace
UnknownFields == {"no_such_metric", Scheduled}

\* one of the five calls with a field the registry of p does not have: the
\* lookup is the first statement that runs, and inc with the value 0 runs no
\* statement at all
call_unregistered(p, op, field, value) ==
    /\ pc[p] = "idle"
    /\ KeyError(m[p], field)
    /\ response' = [op |-> op, by |-> p, field |-> field, value |-> value,
                    result |-> IF Raises(m[p], op, field, value)
                               THEN "raised" ELSE "returned"]
    /\ last' = <<op, p>>
    /\ UNCHANGED <<now, redis, channel, m, pc, frame, reader, history>>

\* a process increments a counter of its registry and flushes, and makes
\* calls that name other fields
NextUnknown ==
    \/ /\ response = NoResponse
       /\ \/ \E value \in Deltas : inc("p1", Counter, value)
          \/ pipe_execute("p1")
          \/ SendSteps("p1")
          \/ \E op \in Calls, field \in UnknownFields, value \in Deltas :
                call_unregistered("p1", op, field, value)
    \/ respond

SpecUnknown == InitSolo /\ [][NextUnknown]_vars

\* C14: each of inc, set, observe, get and decode, called with a field that
\* is not in the registry and with any value, raises an error.
C14_UnknownFieldFailsFast ==
    (response.op \in Calls /\ KeyError(m[response.by], response.field))
        => response.result = "raised"

(***************************************************************************)
(* Two namespaces on one node: p1 is a callback receiver, p2 a dispatcher. *)
(***************************************************************************)
InitTwoNamespaces ==
    Setup([p \in Procs |->
             [namespace |-> IF p = "p1" THEN "callback_receiver"
                            ELSE "dispatcher",
              instance_name |-> "awx-1", metrics_have_changed |-> TRUE]])

\* both processes count, flush and broadcast; the callback receiver
\* namespace is reset
NextNamespaces ==
    \/ inc("p1", Counter, 1)
    \/ /\ BaseM_decode(hash, Scheduled) + Pending(Scheduled) < MaxVal
       /\ inc("p2", Scheduled, 1)
    \/ \E p \in Procs : pipe_execute(p)
    \/ \E p \in Procs : SendSteps(p)
    \/ reset_values("p1")

SpecNamespaces == InitTwoNamespaces /\ [][NextNamespaces]_vars

\* what an object of the namespace reads in the hash: the decoded values of
\* its metrics and the decoded last-broadcast timestamp
ReadBy(namespace, conn) ==
    [field \in FieldsOf(namespace) \cup {SendTime} |->
        IF field = SendTime THEN BaseM_decode(conn, SendTime)
        ELSE decode(conn, field)]

\* C18: no operation of the callback receiver namespace changes a value
\* that the dispatcher namespace reads in the shared hash, its flush
\* self-metrics and its last-broadcast timestamp included.
C18_NamespacesIndependent ==
    [][last'[2] = "p1" =>
          ReadBy("dispatcher", hash') = ReadBy("dispatcher", hash)]_vars

\* C19: the timestamp of the hash changes only in the step of send_metrics
\* that follows the conn.set of the snapshot and then the publish of the
\* same call, and becomes the time that call read; a call that did not get
\* the lock, skipped or raised leaves it as it was, so a timestamp in the
\* hash is always the time of a publish that happened.
C19_TimestampOnlyAfterPublish ==
    [][/\ hash'[SendTime] # hash[SendTime] =>
             \E p \in Procs :
                /\ last' = <<"send_metrics_stamp", p>>
                /\ frame[p].stored /\ frame[p].published /\ ~frame[p].exc
                /\ hash'[SendTime] = <<frame[p].current_time>>
       /\ hash'[SendTime] # Nil =>
             \E i \in 1..Len(publishes') :
                publishes'[i].current_time = hash'[SendTime][1]
       /\ \A p \in Procs : frame'[p].published => frame'[p].stored]_vars

\* the call of p2 raised before it published and left no timestamp; the
\* call of p1 after it stored, published and advanced the timestamp
C19_Witness ==
    /\ last = <<"send_metrics_stamp", "p1">>
    /\ hash[SendTime] = <<frame["p1"].current_time>>
    /\ frame["p1"].stored /\ frame["p1"].published
    /\ frame["p2"].result = "raised" /\ ~frame["p2"].published
    /\ Len(publishes) = 1

\* two processes of one node count, the second one also sets the gauge,
\* and both flush and broadcast, the clock standing
NextSnapshot ==
    \/ \E p \in Procs : inc(p, Counter, 1)
    \/ set("p2", Gauge, 1)
    \/ \E p \in Procs : pipe_execute(p)
    \/ \E p \in Procs : SendSteps(p)

SpecSnapshot == InitOneNode /\ [][NextSnapshot]_vars

\* the snapshot key of the object of p
SnapshotKey(p) == <<m[p].namespace, m[p].instance_name>>

\* C20: a flush that runs has merged its deltas into the hash when its one
\* call of send_metrics starts, and send_metrics starts in no other way;
\* the text the call serializes holds, for the counter, every increment
\* made so far except those other processes have not flushed yet; and when
\* the call publishes, the payload and the stored snapshot are that text.
C20_FlushThenOneBroadcast ==
    [][\A p \in Procs :
          /\ (last' = <<"pipe_execute", p>> /\ m[p].metrics_have_changed) =>
                /\ pc'[p] = "acquire"
                /\ \A field \in {Gauge, Counter} :
                      decode(hash', field) =
                         IF ~m[p].METRICS[field].metric_has_changed
                         THEN decode(hash, field)
                         ELSE IF field = Gauge
                         THEN m[p].METRICS[field].current_value
                         ELSE decode(hash, field)
                                 + m[p].METRICS[field].current_value
                /\ m'[p].METRICS[Counter].current_value = 0
          /\ (pc[p] # "acquire" /\ pc'[p] = "acquire") =>
                /\ last' = <<"pipe_execute", p>>
                /\ pc[p] = "idle"
                /\ m[p].metrics_have_changed
          /\ last' = <<"send_metrics_serialize", p>> =>
                /\ frame'[p].serialized_metrics =
                       json_dumps(load_local_metrics(m[p], hash))
                /\ json_loads(frame'[p].serialized_metrics)[Counter] =
                       total - SumOver([q \in Procs |->
                                          m[q].METRICS[Counter].current_value],
                                       Procs \ {p})
          /\ last' = <<"send_metrics_emit", p>> =>
                /\ frame[p].stored
                /\ channel'[1].metrics = frame[p].serialized_metrics
                /\ instance_keys'[SnapshotKey(p)] = <<channel'[1].metrics>>
                /\ channel'[1].instance = m[p].instance_name]_vars

\* p1 has published: the payload is the stored snapshot and holds the two
\* increments made, the one p1 just merged included, and the gauge that p2
\* merged before
C20_Witness ==
    /\ last = <<"send_metrics_emit", "p1">>
    /\ instance_keys[SnapshotKey("p1")] = <<channel[1].metrics>>
    /\ json_loads(channel[1].metrics)[Gauge] = 1
    /\ json_loads(channel[1].metrics)[Counter] = 2
    /\ total = 2
    /\ since["p1"].ev = "flush"

\* C21: when a flush that ran has returned, the decoded flush-call counter
\* is the number of flushes that ran so far, and the accumulators of the
\* flush duration, the flush-call counter and the broadcast duration hold
\* nothing that waits for a later flush.
C21_FlushRecordsItself ==
    \A p \in Procs :
        (pc[p] = "idle" /\ since[p].ev = "flush") =>
            /\ decode(hash, PipeCalls) = CallsSoFar
            /\ \A field \in {PipeSecs, PipeCalls, SendSecs} :
                  m[p].METRICS[field].current_value = 0

(***************************************************************************)
(* A flush whose pipe.execute() raises (redis cannot be reached).  Every   *)
(* store_value has run by then: it has queued its command and cleared the  *)
(* accumulator; redis-py's Pipeline.execute() empties the pipeline in its  *)
(* finally block, so the queued commands are gone.  The statements after   *)
(* pipe.execute() do not run and the exception leaves pipe_execute.        *)
(***************************************************************************)
FailedBatch(self) ==
    LET st == StoreAll([acc |-> self.METRICS, pipe |-> <<>>],
                       Registry(self.namespace))
    IN  [self EXCEPT !.METRICS = st.acc]

pipe_execute_raises(p) ==
    /\ pc[p] = "idle"
    /\ m[p].metrics_have_changed = TRUE
    /\ m' = [m EXCEPT ![p] = FailedBatch(m[p])]
    /\ frame' = [frame EXCEPT ![p] = [NoFrame EXCEPT !.result = "raised"]]
    /\ since' = [since EXCEPT ![p].ev = "failed"]
    /\ last' = <<"pipe_execute_raises", p>>
    /\ UNCHANGED <<now, reader, response, redis, channel, pc, total, observed,
                   reset_seen, publishes>>

\* one process counts, sets the gauge and flushes; a flush can fail as long
\* as no increment has been lost yet
NextRetry ==
    \/ inc("p1", Counter, 1)
    \/ \E value \in {1, 2} : set("p1", Gauge, value)
    \/ pipe_execute("p1")
    \/ /\ decode(hash, Counter) + Pending(Counter) = total
       /\ pipe_execute_raises("p1")
    \/ SendSteps("p1")

SpecRetry == InitSolo /\ [][NextRetry]_vars

\* C22: after a flush whose batch raised the namespace is still dirty, and
\* when a later flush has succeeded and returned, the hash holds every
\* increment made and the gauge value set last.
C22_FailedFlushLosesNothing ==
    /\ since["p1"].ev = "failed" => m["p1"].metrics_have_changed
    /\ (pc["p1"] = "idle" /\ since["p1"].ev = "flush") =>
          /\ decode(hash, Counter) = total
          /\ decode(hash, Gauge) = m["p1"].METRICS[Gauge].current_value

\* two processes of one node set the gauge to different values, the second
\* one also counts, and both flush
NextGauge ==
    \/ set("p1", Gauge, 1)
    \/ set("p2", Gauge, 2)
    \/ inc("p2", Counter, 1)
    \/ \E p \in Procs : pipe_execute(p)
    \/ \E p \in Procs : SendSteps(p)

SpecGauge == InitOneNode /\ [][NextGauge]_vars

\* C23: the gauge in the hash changes only when the batch of a flush is
\* applied, and only if the flushing process has set the gauge since its
\* previous flush; it then becomes the value that process set last.
C23_GaugeLastMergeWins ==
    [][\A p \in Procs :
          /\ last' = <<"pipe_execute", p>> =>
                hash'[Gauge] =
                   IF /\ m[p].metrics_have_changed
                      /\ m[p].METRICS[Gauge].metric_has_changed
                   THEN <<m[p].METRICS[Gauge].current_value>>
                   ELSE hash[Gauge]
          /\ last'[1] # "pipe_execute" => hash'[Gauge] = hash[Gauge]
          /\ last' = <<"set", p>> =>
                m'[p].METRICS[Gauge] =
                   [current_value |-> IF p = "p1" THEN 1 ELSE 2,
                    metric_has_changed |-> TRUE]]_vars

\* p2 set 2 and flushed, p1 set 1 and flushed after it, and p2 has flushed
\* again without a new set: the hash still holds the 1 of p1
C23_Witness ==
    /\ last = <<"pipe_execute", "p2">>
    /\ pc["p2"] = "acquire"
    /\ hash[Gauge] = <<1>>
    /\ m["p2"].METRICS[Gauge] = [current_value |-> 2,
                                 metric_has_changed |-> FALSE]
    /\ m["p1"].METRICS[Gauge] = [current_value |-> 1,
                                 metric_has_changed |-> FALSE]

(***************************************************************************)
(* auto_pipe_execute: one process on awx-1, constructed with either value  *)
(* of the argument, writes metrics of each kind while the clock advances;  *)
(* the only flushes are those of the writes.                               *)
(***************************************************************************)
InitAuto ==
    \E auto \in BOOLEAN :
        Setup([p \in Procs |->
                 [namespace |-> "callback_receiver",
                  instance_name |-> IF p = "p1" THEN "awx-1" ELSE "awx-2",
                  metrics_have_changed |-> TRUE,
                  auto_pipe_execute |-> IF p = "p1" THEN auto ELSE FALSE]])

NextAuto ==
    \/ \E value \in {0, 1} : inc("p1", Counter, value)
    \/ set("p1", Gauge, 2)
    \/ observe("p1", Histo, 15)
    \/ SendSteps("p1")
    \/ Tick

SpecAuto == InitAuto /\ [][NextAuto]_vars

\* C24: an inc that adds 0 to a counter leaves the object, the hash, the
\* locks, the snapshots and the channel as they are, starts no flush, with
\* auto_pipe_execute too, and leaves the answer of should_pipe_execute as it
\* was.  (No reset runs here, so an inc step added 0 exactly when the sum of
\* the increments did not change.)
C24_IncByZeroChangesNothing ==
    [][\A p \in Procs :
          (last' = <<"inc", p>> /\ total' = total) =>
             /\ m' = m
             /\ hash' = hash /\ locks' = locks
             /\ instance_keys' = instance_keys /\ channel' = channel
             /\ pc' = pc /\ frame' = frame
             /\ should_pipe_execute(m'[p], now')
                   = should_pipe_execute(m[p], now)]_vars

\* inc by 0 was the only call made on the object of p1, which is dirty from
\* its construction and has auto_pipe_execute: no flush has started
C24_Witness ==
    /\ last = <<"inc", "p1">>
    /\ total = 0
    /\ m["p1"].auto_pipe_execute
    /\ m["p1"].metrics_have_changed
    /\ pc["p1"] = "idle"
    /\ hash = [k \in HashKeys |-> Nil]

\* C25: with auto_pipe_execute, whenever no call of the process is running
\* every write made so far is in the hash: the counter decodes to the sum of
\* the increments, the gauge to the value set last, the histogram counts
\* the observations, and no registry metric of the namespace list waits in
\* an accumulator.
C25_AutoCommitMergesAtOnce ==
    (m["p1"].auto_pipe_execute /\ pc["p1"] = "idle") =>
        /\ since["p1"].ev # "write"
        /\ decode(hash, Counter) = total
        /\ m["p1"].METRICS[Counter].current_value = 0
        /\ decode(hash, Gauge) = m["p1"].METRICS[Gauge].current_value
        /\ decode(hash, Histo).inf = NObserved
        /\ decode(hash, Histo).counts[2] = observed[15]
        /\ \A key \in KeysOf("callback_receiver")
                         \ {PipeSecs, PipeCalls, SendSecs} :
              ~m["p1"].METRICS[key].metric_has_changed

\* an inc, a set and an observe have returned and are in the hash
C25_Witness ==
    /\ m["p1"].auto_pipe_execute /\ pc["p1"] = "idle"
    /\ since["p1"].ev = "flush"
    /\ total = 1 /\ decode(hash, Counter) = 1
    /\ hash[Gauge] = <<2>>
    /\ decode(hash, Histo).inf = 1

\* C26: two flushes that writes of an auto_pipe_execute object have made
\* are at least pipe_execute_interval apart.
C26_AutoCommitAtInterval ==
    [][\A p \in Procs :
          (/\ m[p].auto_pipe_execute
           /\ last'[2] = p /\ last'[1] \in {"inc", "set", "observe"}
           /\ pc[p] = "idle" /\ pc'[p] = "acquire"
           /\ since[p].ev = "flush") =>
              now' - since[p].at >= pipe_execute_interval]_vars

(***************************************************************************)
(* A process that stops (is killed) inside the try block of send_metrics,  *)
(* while it holds the lock: it takes no further step.                      *)
(***************************************************************************)
process_stops(p) ==
    /\ pc[p] \in {"gate", "serialize", "store", "emit", "stamp", "release"}
    /\ pc' = [pc EXCEPT ![p] = "stopped"]
    /\ last' = <<"process_stops", p>>
    /\ UNCHANGED <<now, reader, response, redis, channel, m, frame, history>>

\* p2 flushes and may stop while it holds the lock; p1 resets the
\* namespace and flushes
NextResetLock ==
    \/ pipe_execute("p2")
    \/ SendSteps("p2")
    \/ process_stops("p2")
    \/ reset_values("p1")
    \/ pipe_execute("p1")
    \/ SendSteps("p1")

SpecResetLock == InitOneNode /\ [][NextResetLock]_vars

\* C27: after reset_values the lock that send_metrics of the namespace takes
\* is free.
C27_ResetFreesBroadcastLock ==
    [][\A p \in Procs :
          last' = <<"reset_values", p>> =>
             locks'[LockName(m[p].namespace)] = Nil]_vars

(***************************************************************************)
(* HistogramM.decode, one conn.hget per step.  The call in progress is     *)
(* kept in `response`: the hash fields still to read and the values read.  *)
(***************************************************************************)
DecodeOrder_inf_first(field) ==
    <<InfKey(field), SumKey(field)>>
        \o [i \in 1..Len(buckets) |-> BucketKey(field, buckets[i])]

\* the fields in the order decode reads them: the buckets, the sum, the total
DecodeOrder(field) ==
    [i \in 1..Len(buckets) |-> BucketKey(field, buckets[i])]
        \o <<SumKey(field), InfKey(field)>>

\* the value read for a hash field
ReadOf(values, key) ==
    (CHOOSE v \in {values[i] : i \in 1..Len(values)} : v.key = key).value

\* the dict decode returns from the values read
DecodedValues(field, values) ==
    [counts |-> [i \in 1..Len(buckets) |->
                    ReadOf(values, BucketKey(field, buckets[i]))],
     sum |-> ReadOf(values, SumKey(field)),
     inf |-> ReadOf(values, InfKey(field))]

HistogramM_decode_call(p, field) ==
    /\ response = NoResponse
    /\ response' = [op |-> "decode", by |-> p, field |-> field,
                    keys |-> DecodeOrder(field), values |-> <<>>]
    /\ last' = <<"decode", p>>
    /\ UNCHANGED <<now, redis, channel, m, pc, frame, reader, history>>

HistogramM_decode_hget ==
    /\ response.op = "decode"
    /\ response.keys # <<>>
    /\ response' =
          [response EXCEPT
             !.keys = Tail(@),
             !.values = Append(@, [key |-> Head(response.keys),
                                   value |-> BaseM_decode(
                                                hash, Head(response.keys))])]
    /\ last' = <<"decode_hget", response.by>>
    /\ UNCHANGED <<now, redis, channel, m, pc, frame, reader, history>>

\* p1 decodes the histogram again and again while p2 observes and flushes
NextDecode ==
    \/ \E value \in {5, 15, 999} : observe("p2", Histo, value)
    \/ pipe_execute("p2")
    \/ SendSteps("p2")
    \/ HistogramM_decode_call("p1", Histo)
    \/ HistogramM_decode_hget
    \/ /\ response.op = "decode" /\ response.keys = <<>>
       /\ respond

SpecDecode == InitSolo /\ [][NextDecode]_vars

\* C28: the dict a decode of the histogram returns has a total that is at
\* least the sum of its bucket counts, whatever flushes of other processes
\* were applied between its reads.
C28_DecodedTotalCoversBuckets ==
    (response.op = "decode" /\ response.keys = <<>>) =>
        LET values == DecodedValues(response.field, response.values)
        IN  values.inf >= SumOver(values.counts, 1..Len(buckets))

\* a flush was applied after the decode had read the first bucket: the
\* dict returned has the total 1 and no bucket count, the hash has the count
C28_Witness ==
    /\ response.op = "decode" /\ response.keys = <<>>
    /\ DecodedValues(Histo, response.values).counts = <<0, 0, 0>>
    /\ DecodedValues(Histo, response.values).inf = 1
    /\ decode(hash, Histo).counts = <<1, 0, 0>>

(***************************************************************************)
(* Processes that write and flush for ever.  Nothing send_metrics decides  *)
(* on reads the three self-metrics or a time older than the interval, so   *)
(* a self-metric above MaxVal is kept as MaxVal, the clock is kept at      *)
(* MaxTime by moving every recorded time one back (a time already more     *)
(* than the interval back stays), only the last publish is kept in the     *)
(* history and the frame records no overlap of attempts.                   *)
(***************************************************************************)
Saturated(conn) ==
    [k \in DOMAIN conn |->
        IF k \in {PipeSecs, PipeCalls, SendSecs} /\ conn[k] # Nil
           /\ conn[k][1] > MaxVal
        THEN <<MaxVal>> ELSE conn[k]]

Earlier(t) ==
    IF MaxTime - t > send_metrics_interval /\ MaxTime - t > pipe_execute_interval
    THEN t ELSE t - 1

LastOf(seq) == IF seq = <<>> THEN <<>> ELSE <<seq[Len(seq)]>>

\* pipe_execute up to its call of send_metrics, any number of times
pipe_execute_again(p) ==
    /\ pc[p] = "idle"
    /\ m[p].metrics_have_changed = TRUE
    /\ \E duration_to_save \in Durations :
         LET r == MergeBatch(m[p], hash, now, duration_to_save)
         IN  /\ hash' = Saturated(r.conn)
             /\ m' = [m EXCEPT ![p] = r.self]
             /\ pc' = [pc EXCEPT ![p] = "acquire"]
             /\ frame' = [frame EXCEPT ![p] = NoFrame]
             /\ since' = [since EXCEPT ![p] = [ev |-> "flush", at |-> now]]
    /\ publishes' = LastOf(publishes)
    /\ last' = <<"pipe_execute", p>>
    /\ UNCHANGED <<now, reader, response, locks, instance_keys, channel,
                   total, observed, reset_seen>>

\* time.time() grows by one
time_passes ==
    /\ IF now < MaxTime
       THEN /\ now' = now + 1
            /\ UNCHANGED <<hash, m, frame, since, publishes>>
       ELSE /\ now' = now
            /\ hash' = [hash EXCEPT ![SendTime] =
                           IF @ = Nil THEN Nil ELSE <<Earlier(@[1])>>]
            /\ m' = [p \in Procs |->
                       [m[p] EXCEPT
                          !.last_pipe_execute = Earlier(@),
                          !.previous_send_metrics.current_value =
                              Earlier(@)]]
            /\ frame' = [p \in Procs |->
                           [frame[p] EXCEPT !.current_time = Earlier(@)]]
            /\ since' = [p \in Procs |-> [since[p] EXCEPT !.at = Earlier(@)]]
            /\ publishes' = [i \in 1..Len(publishes) |->
                               [publishes[i] EXCEPT
                                  !.current_time = Earlier(@)]]
    /\ last' = <<"tick", "-">>
    /\ UNCHANGED <<locks, instance_keys, channel, pc, reader, response,
                   total, observed, reset_seen>>

\* what a process does: it sets the gauge, flushes, broadcasts
Runs(p) ==
    \/ set(p, Gauge, 1)
    \/ pipe_execute_again(p)
    \/ SendSteps(p)

NextLive ==
    \/ \E p \in Procs : Runs(p)
    \/ time_passes

\* two nodes on one store: the clock advances and no process stops inside
\* send_metrics
SpecLive ==
    /\ InitSolo /\ [][NextLive]_vars
    /\ WF_vars(time_passes)
    /\ \A p \in Procs : WF_vars(SendSteps(p))

\* p has just merged a batch and is about to call send_metrics
Flushed(p) == last = <<"pipe_execute", p>> /\ pc[p] = "acquire"

\* C29: a node whose process writes and flushes again and again has its
\* snapshot stored again and again, whatever the other node does.
C29_NoSnapshotStarved ==
    \A p \in Procs :
        []<>Flushed(p) => []<>(last = <<"send_metrics_store", p>>)

\* C30: when the current node has a snapshot, a collect served by a process
\* of the node has yielded a family for exactly the registry metrics whose
\* field the snapshot has, a scalar
\* family has the value of the node's rendered sample line, and a histogram
\* family has the values of the node's rendered bucket lines, +Inf included.
C30_CollectorMatchesRenderer ==
    \A p \in Procs :
        LET node == m[p].instance_name
            instance_data == load_other_metrics(m[p], instance_keys, {node})
            host == EntryOf(instance_data, node)
            r == response.result
        IN  (response.op = "collect" /\ response.by = p /\ host # Nil) =>
              LET host_metrics == instance_data[host[1]].data
              IN  /\ ~r.raised
                  /\ {r.families[k].field : k \in 1..Len(r.families)}
                        = {f \in FieldsOf(m[p].namespace) :
                              f \in DOMAIN host_metrics}
                  /\ \A k \in 1..Len(r.families) :
                        LET family == r.families[k]
                            text == to_prometheus(family.field,
                                                  instance_data).output_text
                            line(le) ==
                                ValueOf(text, family.field \o "_bucket",
                                        <<"le", le, "node", node>>)
                        IN  IF family.type = "histogram"
                            THEN \A le \in {ToString(buckets[i]) :
                                              i \in 1..Len(buckets)}
                                           \cup {"+Inf"} :
                                    \E j \in 1..Len(family.value.buckets) :
                                       family.value.buckets[j] =
                                          <<le, ToString(line(le)[1])>>
                            ELSE <<family.value>> =
                                    ValueOf(text, family.field,
                                            <<"node", node>>)

\* C31: a collect served by a process whose node has no stored snapshot,
\* whether or not a peer has one, has yielded no family and raised nothing.
C31_CollectorToleratesNoSnapshot ==
    \A p \in Procs :
        (/\ response.op = "collect" /\ response.by = p
         /\ instance_keys[<<m[p].namespace, m[p].instance_name>>] = Nil)
            => /\ ~response.result.raised
               /\ response.result.families = <<>>

=============================================================================
